---- MODULE Spec2Model ----
(***************************************************************************)
(* BFTRaft.go: the server's peer directory, uncommitted-range computer and *)
(* replication dispatcher (package server), the client's membership        *)
(* resolver and command executor (package client), and the alpha-node      *)
(* bootstrap (package utils).                                              *)
(*                                                                         *)
(* The module holds several specifications over one set of variables; each *)
(* specification moves the variables of one part of the program and leaves *)
(* the others at their initial value:                                      *)
(*   SpecRange    PeerUncommittedLogEntries over a growing log             *)
(*   SpecSend     SendPeerUncommittedLogEntries and its dispatch tasks     *)
(*   SpecMember   GetGroupHosts, GetGroupLeader, GroupExists over the      *)
(*                alpha pool, with the client's two caches                 *)
(*   SpecExec     one ExecCommand call with its three tasks, the leader's  *)
(*                response and the replicas' deliveries                    *)
(*   SpecExecFair SpecExec under weak fairness of its steps                *)
(*   SpecCalls    concurrent ExecCommand calls that register their inboxes *)
(*                and leave when the hosts cannot be resolved              *)
(*   SpecDir      GetPeer, GetGroupPeers and GroupServerPeer over the      *)
(*                stored peer rows, with the server's two caches           *)
(*   SpecDirFair  SpecDir under weak fairness of the GetGroupPeers loop    *)
(*   SpecAlpha    AlphaNodes over any list of bootstrap addresses          *)
(***************************************************************************)
EXTENDS Integers, Sequences, FiniteSets, TLC

\* ------------------------------------------------------------------ bounds
MaxLogLen == 3
MaxTerm == 2
MaxSends == 2
MaxAlpha == 3
MaxCalls == 2
MaxFaulty == 1
MaxPeers == 2
MaxAllocs == 3
MaxScan == 3
MaxServers == 4

\* ---------------------------------------------------------------- variables
VARIABLES
    log,            \* the group's log: LogEntry records, ascending by Index
    peerNextIndex,  \* peer.NextIndex of the follower
    groupTerm,      \* group.Term
    rangeRes,       \* the last PeerUncommittedLogEntries call: inputs and outputs
    sends,          \* the SendPeerUncommittedLogEntries calls made, each with its task
    AlphaRPCs,      \* the number of RPC clients brc.AlphaRPCs.Get() returns
    GroupHosts,     \* brc.GroupHosts: group -> cached host list, or NotCached
    GroupLeader,    \* brc.GroupLeader: group -> cached leader client, or NotCached
    lastCall,       \* the last membership call: its answers, quorum result, return
    clientPanicked, \* the client process has panicked
    Counter,        \* brc.Counter
    CmdResChan,     \* brc.CmdResChan[groupId]: the inner map, once made
    chans,          \* the channel each call made: "none", "open" or "closed"
    main,           \* each ExecCommand call: its position and locals
    leaderTask,     \* each call's leader-RPC task
    collector,      \* each call's result collector
    waitGroup,      \* each call's wg, its watcher and replicationCompleted
    delivered,      \* per call, the replicas whose result was taken from the inbox
    results,        \* the result each replica of the group produces for a command
    Lock,           \* brc.Lock: "unlocked", or held
    kv,             \* s.DB: the stored bytes of the group's peer rows, by peer id
    heap,           \* the pb.Peer objects allocated so far; a pointer is an index
    Peers,          \* s.Peers: peer id -> cached pointer, or NoPtr
    GroupsPeers,    \* s.GroupsPeers: the cached peer list of the group, or NotCached
    peerCall,       \* the last GetPeer call: its key and what it returned
    peerReturned,   \* per key, what GetPeer returned last since the key's expiry
    groupPeers,     \* the GetGroupPeers call in progress: position, iterator, list
    alphaCall       \* the last AlphaNodes call: its inputs and what it returned

serverVars == <<log, peerNextIndex, groupTerm>>
sendVars == <<rangeRes, sends>>
memberVars == <<AlphaRPCs, GroupHosts, GroupLeader, lastCall, clientPanicked>>
execVars == <<Counter, CmdResChan, chans, main, leaderTask, collector, waitGroup,
              delivered, results>>
clientVars == <<memberVars, execVars>>
dirVars == <<kv, heap, Peers, GroupsPeers, peerCall, peerReturned, groupPeers>>
otherVars == <<Lock, dirVars, alphaCall>>
vars == <<log, peerNextIndex, groupTerm, rangeRes, sends,
          AlphaRPCs, GroupHosts, GroupLeader, lastCall, clientPanicked,
          Counter, CmdResChan, chans, main, leaderTask, collector, waitGroup,
          delivered, results, Lock, kv, heap, Peers, GroupsPeers, peerCall,
          peerReturned, groupPeers, alphaCall>>

\* ------------------------------------------------------ client: the caches
\* The groups the client asks about.
Groups == {7, 8}

\* A cache miss, Go's nil, and a panic in place of a return value. Every value a
\* call returns is a record, so that any two of them can be compared.
NotCached == [cached |-> FALSE]
Nil == [nil |-> TRUE]
Panic == [panic |-> TRUE]

\* NewClient: both caches empty; no membership call made yet.
InitCaches ==
    /\ GroupHosts = [g \in Groups |-> NotCached]
    /\ GroupLeader = [g \in Groups |-> NotCached]
    /\ lastCall = [op |-> "none"]
    /\ clientPanicked = FALSE

\* The calls of ExecCommand the model follows, and the group they address.
Calls == 1..MaxCalls
ExecGroup == 7

\* Result bytes: what an honest replica computes, what a faulty one may send,
\* and the zero value a receive on a closed channel yields.
HonestResult == <<1, 2>>
FaultyResult == <<153>>
NilBytes == <<>>

\* No channel: the zero value a lookup in CmdResChan yields for a missing key.
NilChan == 0

\* NewClient: Counter 0, CmdResChan empty, the lock free; no call of ExecCommand
\* started.
InitExecState ==
    /\ Counter = 0
    /\ CmdResChan = [made |-> FALSE, m |-> <<>>]
    /\ chans = [c \in Calls |-> "none"]
    /\ main = [c \in Calls |-> [pc |-> "idle", leader |-> Nil, reqId |-> 0,
                                 hosts |-> Nil, expected |-> 0, ret |-> Nil]]
    /\ leaderTask = [c \in Calls |-> [pc |-> "none", ch |-> NilChan, res |-> NilBytes]]
    /\ collector = [c \in Calls |-> [pc |-> "none", ch |-> NilChan, i |-> 0,
                                      responseHashes |-> <<>>,
                                      responseReceived |-> <<>>]]
    /\ waitGroup = [c \in Calls |-> [n |-> 0, watcher |-> "none", completed |-> FALSE]]
    /\ delivered = [c \in Calls |-> {}]
    /\ Lock = "unlocked"

\* The command executor at rest, in the specifications of the other parts.
ExecIdle ==
    /\ InitExecState
    /\ results = [h \in {} |-> NilBytes]

\* The client part at rest, in the specifications of the server.
MemberIdle ==
    /\ AlphaRPCs = 0
    /\ InitCaches
    /\ ExecIdle

\* ------------------------------------------------- server: the peer directory
\* The peer ids of the group, and the local node's id as Peer.Host holds it.
PeerIds == 1..MaxPeers
ServerHost == 1

\* No row under a key (ItemValue yields nil), and the nil *pb.Peer.
Absent == <<>>
NoPtr == 0

\* The directory before any lookup: nothing allocated, both caches empty.
InitDirState ==
    /\ heap = <<>>
    /\ Peers = [p \in PeerIds |-> NoPtr]
    /\ GroupsPeers = NotCached
    /\ peerCall = [op |-> "none"]
    /\ peerReturned = [p \in PeerIds |-> [known |-> FALSE]]
    /\ groupPeers = [pc |-> "idle"]

\* The directory at rest, in the specifications of the other parts.
DirIdle ==
    /\ kv = [p \in PeerIds |-> Absent]
    /\ InitDirState

\* The alpha bootstrap at rest: AlphaNodes not called.
AlphaIdle == alphaCall = [op |-> "none"]

\* ------------------------------------------------ server: uncommitted range
\* pb.LogEntry, the fields the server code reads.
LogEntry(i, t) == [Index |-> i, Term |-> t]

\* prevEntry's initial value: &pb.LogEntry{Term: 0, Index: 0}.
SentinelEntry == LogEntry(0, 0)

\* The entries ReversedLogIterator yields: the log from its last entry down.
ReversedLogIterator(l) == [i \in 1..Len(l) |-> l[Len(l) + 1 - i]]

\* A plausible slip of the scan: prevEntry is assigned after the stop test, so
\* the entry that stops the scan never becomes the anchor.
RECURSIVE ScanLoopPrevAfterTest(_, _, _, _, _)
ScanLoopPrevAfterTest(it, pos, nextLogIdx, entries, prevEntry) ==
    IF pos >= Len(it)
    THEN [entries |-> entries, prevEntry |-> prevEntry]
    ELSE LET entry == it[pos + 1]
         IN  IF entry.Index < nextLogIdx
             THEN [entries |-> entries, prevEntry |-> prevEntry]
             ELSE ScanLoopPrevAfterTest(it, pos + 1, nextLogIdx,
                                        Append(entries, entry), entry)

\* The scan loop: iter.Next() until nil; prevEntry = entry; stop when the entry's
\* Index is below nextLogIdx; otherwise append. pos is the number of entries taken
\* from the iterator so far.
RECURSIVE ScanLoop(_, _, _, _, _)
ScanLoop(it, pos, nextLogIdx, entries, prevEntry) ==
    IF pos >= Len(it)
    THEN [entries |-> entries, prevEntry |-> prevEntry]
    ELSE LET entry == it[pos + 1]
         IN  IF entry.Index < nextLogIdx
             THEN [entries |-> entries, prevEntry |-> entry]
             ELSE ScanLoop(it, pos + 1, nextLogIdx, Append(entries, entry), entry)

\* A plausible slip of the reversal: the loop bound is len(entries) for
\* len(entries)/2, so every pair is swapped twice and the order is unchanged.
RECURSIVE ReverseLoopFullLength(_, _)
ReverseLoopFullLength(entries, i) ==
    IF i >= Len(entries)
    THEN entries
    ELSE LET j == Len(entries) - i - 1
         IN  ReverseLoopFullLength([entries EXCEPT ![i + 1] = entries[j + 1],
                                                   ![j + 1] = entries[i + 1]], i + 1)

\* The reversal loop: for i < len/2, swap entries[i] and entries[len-i-1]
\* (i counts from 0 as in the code; sequences count from 1).
RECURSIVE ReverseLoop(_, _)
ReverseLoop(entries, i) ==
    IF i >= Len(entries) \div 2
    THEN entries
    ELSE LET j == Len(entries) - i - 1
         IN  ReverseLoop([entries EXCEPT ![i + 1] = entries[j + 1],
                                         ![j + 1] = entries[i + 1]], i + 1)

\* PeerUncommittedLogEntries(group, peer): (entries, prevEntry).
PeerUncommittedLogEntries(l, nextLogIdx) ==
    LET scanned == ScanLoop(ReversedLogIterator(l), 0, nextLogIdx, <<>>, SentinelEntry)
    IN  [entries |-> ReverseLoop(scanned.entries, 0), prevEntry |-> scanned.prevEntry]

\* No call made yet.
NoCall == [called |-> FALSE]

\* ------------------------------------------------- server: dispatch records
\* A dispatch task that dereferenced a nil client has panicked: the goroutine's
\* panic is not recovered and ends the server process.
ServerPanicked == \E i \in 1..Len(sends) : sends[i].pc = "panic"

\* ------------------------------------------------------ the log and the peer
\* The log layer appends an entry: indices dense from 1, terms never decreasing.
AppendLogEntry(t) ==
    /\ ~ServerPanicked
    /\ Len(log) < MaxLogLen
    /\ Len(log) > 0 => t >= log[Len(log)].Term
    /\ log' = Append(log, LogEntry(Len(log) + 1, t))
    /\ UNCHANGED <<peerNextIndex, groupTerm, sendVars, clientVars>>
    /\ UNCHANGED otherVars

\* The leader moves the follower's nextIndex (uint64: 0 is a value).
SetPeerNextIndex(k) ==
    /\ ~ServerPanicked
    /\ k /= peerNextIndex
    /\ peerNextIndex' = k
    /\ UNCHANGED <<log, groupTerm, sendVars, clientVars>>
    /\ UNCHANGED otherVars

\* The group moves to a later term.
SetGroupTerm(t) ==
    /\ ~ServerPanicked
    /\ t > groupTerm
    /\ groupTerm' = t
    /\ UNCHANGED <<log, peerNextIndex, sendVars, clientVars>>
    /\ UNCHANGED otherVars

\* A call of PeerUncommittedLogEntries on the current log and peer.
CallPeerUncommittedLogEntries ==
    /\ rangeRes' = [called |-> TRUE, log |-> log, nextIndex |-> peerNextIndex,
                    out |-> PeerUncommittedLogEntries(log, peerNextIndex)]
    /\ UNCHANGED <<serverVars, sends, clientVars>>
    /\ UNCHANGED otherVars

InitServer ==
    /\ log = <<>>
    /\ peerNextIndex = 1
    /\ groupTerm = 1

InitRange ==
    /\ InitServer
    /\ DirIdle
    /\ AlphaIdle
    /\ rangeRes = NoCall
    /\ sends = <<>>
    /\ MemberIdle

NextRange ==
    \/ \E t \in 1..MaxTerm : AppendLogEntry(t)
    \/ \E k \in 0..(MaxLogLen + 2) : SetPeerNextIndex(k)
    \/ CallPeerUncommittedLogEntries

SpecRange == InitRange /\ [][NextRange]_vars

\* ------------------------------------------- server: replication dispatcher
\* The group id of the replicated group (group.Id), and the local node (s.Id).
GroupId == "g"
ServerId == "self"

\* What s.ClusterClients.Get(addr) may hand back as (client, err): a client and
\* no error; no client and an error; a client together with a non-nil second
\* value (the pool's "already present" reading of spec 4.6).
PoolAnswers ==
    { [client |-> TRUE,  err |-> FALSE],
      [client |-> FALSE, err |-> TRUE],
      [client |-> TRUE,  err |-> TRUE] }

\* AppendLogEntrySignData(group, term, prevIndex, prevTerm): the canonical bytes
\* of the four values, in this order.
AppendLogEntrySignData(g, term, prevIndex, prevTerm) ==
    <<"AppendLogEntry", g, term, prevIndex, prevTerm>>

\* s.Sign(data): a signature by the server's key over data.
Sign(data) == [signer |-> ServerId, over |-> data]

\* The gate of line 83: the task is spawned when err != nil.
SpawnsTask(got) == got.err

\* SendPeerUncommittedLogEntries(ctx, group, peer): GetNode(peer.Host) is nil
\* (known = FALSE) and the call returns, or the pool is asked for a client and
\* the dispatch task is spawned under the gate.
SendPeerUncommittedLogEntries(known, got) ==
    /\ ~ServerPanicked
    /\ Len(sends) < MaxSends
    /\ sends' = Append(sends,
           IF known
           THEN [node |-> TRUE, client |-> got.client, err |-> got.err,
                 pc |-> IF SpawnsTask(got) THEN "range" ELSE "none"]
           ELSE [node |-> FALSE, client |-> FALSE, err |-> FALSE, pc |-> "none"])
    /\ UNCHANGED <<serverVars, rangeRes, clientVars>>
    /\ UNCHANGED otherVars

\* The task's first statement: entries, prevEntry := PeerUncommittedLogEntries.
TaskRange(i) ==
    /\ ~ServerPanicked
    /\ sends[i].pc = "range"
    /\ LET out == PeerUncommittedLogEntries(log, peerNextIndex)
       IN  sends' = [sends EXCEPT ![i] =
               [node |-> @.node, client |-> @.client, err |-> @.err, pc |-> "sign",
                entries |-> out.entries, prevEntry |-> out.prevEntry]]
    /\ UNCHANGED <<serverVars, rangeRes, clientVars>>
    /\ UNCHANGED otherVars

\* signData := AppendLogEntrySignData(group.Id, group.Term, prevEntry.Index,
\* prevEntry.Term), with group.Term as it is now.
TaskSignData(i) ==
    /\ ~ServerPanicked
    /\ sends[i].pc = "sign"
    /\ sends' = [sends EXCEPT ![i] =
           [node |-> @.node, client |-> @.client, err |-> @.err, pc |-> "rpc",
            entries |-> @.entries, prevEntry |-> @.prevEntry,
            signData |-> AppendLogEntrySignData(GroupId, groupTerm,
                                                @.prevEntry.Index, @.prevEntry.Term)]]
    /\ UNCHANGED <<serverVars, rangeRes, clientVars>>
    /\ UNCHANGED otherVars

\* client.rpc.AppendEntries(ctx, &pb.AppendEntriesRequest{...}): a nil client
\* panics on client.rpc; otherwise the request is built, with group.Term as it
\* is now, and sent.
TaskAppendEntries(i) ==
    /\ ~ServerPanicked
    /\ sends[i].pc = "rpc"
    /\ sends' = [sends EXCEPT ![i] =
           IF ~@.client
           THEN [node |-> @.node, client |-> @.client, err |-> @.err, pc |-> "panic"]
           ELSE [node |-> @.node, client |-> @.client, err |-> @.err, pc |-> "sent",
                 request |-> [Group |-> GroupId, Term |-> groupTerm,
                              LeaderId |-> ServerId,
                              PrevLogIndex |-> @.prevEntry.Index,
                              PrevLogTerm |-> @.prevEntry.Term,
                              Signature |-> Sign(@.signData),
                              QuorumVotes |-> <<>>,
                              Entries |-> @.entries]]]
    /\ UNCHANGED <<serverVars, rangeRes, clientVars>>
    /\ UNCHANGED otherVars

InitSend ==
    /\ InitServer
    /\ DirIdle
    /\ AlphaIdle
    /\ rangeRes = NoCall
    /\ sends = <<>>
    /\ MemberIdle

NextSend ==
    \/ \E t \in 1..MaxTerm : AppendLogEntry(t)
    \/ \E k \in 0..(MaxLogLen + 2) : SetPeerNextIndex(k)
    \/ \E t \in 1..MaxTerm : SetGroupTerm(t)
    \/ \E known \in BOOLEAN, got \in PoolAnswers :
           SendPeerUncommittedLogEntries(known, got)
    \/ \E i \in 1..Len(sends) : TaskRange(i)
    \/ \E i \in 1..Len(sends) : TaskSignData(i)
    \/ \E i \in 1..Len(sends) : TaskAppendEntries(i)

SpecSend == InitSend /\ [][NextSend]_vars

\* ------------------------------------------------- utils: hashing and quorum
\* utils.HashData(bytes): a 64-bit hash of a byte string; here a polynomial hash
\* of the bytes, injective on the byte strings the model uses.
RECURSIVE HashFrom(_, _)
HashFrom(h, bytes) ==
    IF bytes = <<>> THEN h
    ELSE HashFrom((h * 31 + Head(bytes)) % 65521, Tail(bytes))

HashData(bytes) == HashFrom(7, bytes)

\* spb.Host, and the host lists and leader nodes the alpha nodes may report.
Host(i) == [Id |-> i, ServerAddr |-> <<100 + i>>]
Replicas == {1, 2, 3, 4}
HostListA == <<Host(1), Host(2), Host(3), Host(4)>>
HostListB == <<Host(1)>>

\* utils.NodesSignData(nodes): the canonical bytes of a host list, host by host.
RECURSIVE NodesSignData(_)
NodesSignData(nodes) ==
    IF nodes = <<>> THEN <<>>
    ELSE <<Head(nodes).Id>> \o Head(nodes).ServerAddr \o NodesSignData(Tail(nodes))

\* utils.MajorityResponse(clients, f), given f's (result, feature) per client:
\* the values it may return. Every feature is hashed; empty features abstain and
\* enter no tally; the winning hash is the one held by strictly more than half of
\* the polled clients. The value returned is one of those whose feature has the
\* winning hash; nil when no hash wins.
MajorityResponse(frs) ==
    LET hashes == [i \in 1..Len(frs) |-> HashData(frs[i].feature)]
        voters == {i \in 1..Len(frs) : frs[i].feature /= <<>>}
        Tally(h) == Cardinality({i \in voters : hashes[i] = h})
        winners == {i \in voters : 2 * Tally(hashes[i]) > Len(frs)}
    IN  IF winners = {} THEN {Nil} ELSE {frs[i].result : i \in winners}

\* --------------------------------------------- client: membership resolver
\* What an alpha node's RPC may answer: an error, or a response.
HostsAnswers ==
    <<[err |-> TRUE],
      [err |-> FALSE, Nodes |-> HostListA],
      [err |-> FALSE, Nodes |-> HostListB]>>
LeaderAnswers ==
    <<[err |-> TRUE],
      [err |-> FALSE, Node |-> Nil],
      [err |-> FALSE, Node |-> Host(1)],
      [err |-> FALSE, Node |-> Host(2)]>>
ContentAnswers ==
    <<[err |-> TRUE], [err |-> FALSE]>>

\* The answers a call receives: none on a cache hit (nobody is polled), one per
\* client of the alpha pool otherwise. The tally of the answers does not depend
\* on which client gave which, so one order of every combination is listed.
PollAnswers(cached, answers) ==
    IF cached /= NotCached THEN {<<>>}
    ELSE LET picks == {f \in [1..AlphaRPCs -> 1..Len(answers)] :
                         \A i \in 1..(AlphaRPCs - 1) : f[i] <= f[i + 1]}
         IN  {[i \in 1..AlphaRPCs |-> answers[f[i]]] : f \in picks}

\* A plausible slip of the GetGroupHosts closure: the canonical bytes are a
\* constant for every successful answer (as in GroupExists), not the sign data of
\* the nodes received.
GroupHostsQueryConstantFeature(a) ==
    IF ~a.err
    THEN [result |-> [Nodes |-> a.Nodes], feature |-> <<1>>]
    ELSE [result |-> Nil, feature |-> <<>>]

\* The closure of GetGroupHosts: (&res.Nodes, NodesSignData(res.Nodes)), or
\* (nil, []byte{}) on an RPC error.
GroupHostsQuery(a) ==
    IF ~a.err
    THEN [result |-> [Nodes |-> a.Nodes], feature |-> NodesSignData(a.Nodes)]
    ELSE [result |-> Nil, feature |-> <<>>]

\* The closure of GetGroupLeader: (res.Node, []byte(res.Node.ServerAddr)), or
\* (nil, []byte{}) on an RPC error. Not defined for a nil res.Node: see
\* LeaderQueryPanics.
GroupLeaderQuery(a) ==
    IF ~a.err
    THEN [result |-> a.Node, feature |-> a.Node.ServerAddr]
    ELSE [result |-> Nil, feature |-> <<>>]

\* res.Node.ServerAddr on a nil res.Node: a nil pointer dereference.
LeaderQueryPanics(a) == ~a.err /\ a.Node = Nil

\* The closure of GroupExists: (true, []byte{1}), or (false, []byte{0}) on an
\* RPC error.
GroupExistsQuery(a) ==
    IF ~a.err
    THEN [result |-> [bool |-> TRUE], feature |-> <<1>>]
    ELSE [result |-> [bool |-> FALSE], feature |-> <<0>>]

\* GetGroupHosts(groupId): the cached list on a hit; otherwise the quorum query,
\* whose non-nil result is cached and returned.
GetGroupHosts(g, answers) ==
    /\ ~clientPanicked
    /\ IF GroupHosts[g] /= NotCached
       THEN /\ answers = <<>>
            /\ lastCall' = [op |-> "GetGroupHosts", group |-> g, polled |-> FALSE,
                            ret |-> GroupHosts[g]]
            /\ UNCHANGED GroupHosts
       ELSE /\ Len(answers) = AlphaRPCs
            /\ \E res \in MajorityResponse(
                            [i \in 1..Len(answers) |-> GroupHostsQuery(answers[i])]) :
                  /\ lastCall' = [op |-> "GetGroupHosts", group |-> g, polled |-> TRUE,
                                  answers |-> answers, res |-> res, ret |-> res]
                  /\ GroupHosts' = IF res /= Nil
                                   THEN [GroupHosts EXCEPT ![g] = res]
                                   ELSE GroupHosts
    /\ UNCHANGED <<AlphaRPCs, GroupLeader, clientPanicked>>

\* utils.GetClusterRPC(addr): the RPC client for an address.
ClusterRPC(addr) == [ServerAddr |-> addr]

\* GetGroupLeader(groupId): the cached client on a hit; otherwise the quorum
\* query; for a non-nil leader host a cluster RPC client is opened (rpcOk: without
\* error), cached and returned; nil in every other case.
GetGroupLeader(g, answers, rpcOk) ==
    /\ ~clientPanicked
    /\ IF GroupLeader[g] /= NotCached
       THEN /\ answers = <<>> /\ rpcOk
            /\ lastCall' = [op |-> "GetGroupLeader", group |-> g, polled |-> FALSE,
                            ret |-> GroupLeader[g]]
            /\ UNCHANGED <<GroupLeader, clientPanicked>>
       ELSE /\ Len(answers) = AlphaRPCs
            /\ IF \E i \in 1..Len(answers) : LeaderQueryPanics(answers[i])
               THEN /\ rpcOk
                    /\ clientPanicked' = TRUE
                    /\ lastCall' = [op |-> "GetGroupLeader", group |-> g,
                                    polled |-> TRUE, answers |-> answers,
                                    res |-> Nil, ret |-> Panic]
                    /\ UNCHANGED GroupLeader
               ELSE \E res \in MajorityResponse(
                            [i \in 1..Len(answers) |-> GroupLeaderQuery(answers[i])]) :
                    LET leader == IF res /= Nil /\ rpcOk
                                  THEN ClusterRPC(res.ServerAddr) ELSE Nil
                    IN  /\ res = Nil => rpcOk
                        /\ lastCall' = [op |-> "GetGroupLeader", group |-> g,
                                        polled |-> TRUE, answers |-> answers,
                                        res |-> res, ret |-> leader]
                        /\ GroupLeader' = IF leader /= Nil
                                          THEN [GroupLeader EXCEPT ![g] = leader]
                                          ELSE GroupLeader
                        /\ UNCHANGED clientPanicked
    /\ UNCHANGED <<AlphaRPCs, GroupHosts>>

\* GroupExists(groupId): the quorum query, its result asserted to be a bool:
\* res.(bool) panics on a nil interface value.
GroupExists(g, answers) ==
    /\ ~clientPanicked
    /\ Len(answers) = AlphaRPCs
    /\ \E res \in MajorityResponse(
                    [i \in 1..Len(answers) |-> GroupExistsQuery(answers[i])]) :
          /\ lastCall' = [op |-> "GroupExists", group |-> g, polled |-> TRUE,
                          answers |-> answers, res |-> res,
                          ret |-> IF res = Nil THEN Panic ELSE res]
          /\ clientPanicked' = (res = Nil)
    /\ UNCHANGED <<AlphaRPCs, GroupHosts, GroupLeader>>

\* The caches' TTL: an entry expires.
ExpireGroupHosts(g) ==
    /\ ~clientPanicked
    /\ GroupHosts[g] /= NotCached
    /\ GroupHosts' = [GroupHosts EXCEPT ![g] = NotCached]
    /\ UNCHANGED <<AlphaRPCs, GroupLeader, lastCall, clientPanicked>>

ExpireGroupLeader(g) ==
    /\ ~clientPanicked
    /\ GroupLeader[g] /= NotCached
    /\ GroupLeader' = [GroupLeader EXCEPT ![g] = NotCached]
    /\ UNCHANGED <<AlphaRPCs, GroupHosts, lastCall, clientPanicked>>

\* The membership calls made on their own.
CallGetGroupHosts(g, answers) ==
    /\ GetGroupHosts(g, answers)
    /\ UNCHANGED <<serverVars, sendVars, execVars, otherVars>>

CallGetGroupLeader(g, answers, rpcOk) ==
    /\ GetGroupLeader(g, answers, rpcOk)
    /\ UNCHANGED <<serverVars, sendVars, execVars, otherVars>>

CallGroupExists(g, answers) ==
    /\ GroupExists(g, answers)
    /\ UNCHANGED <<serverVars, sendVars, execVars, otherVars>>

CacheExpiry(g) ==
    /\ ExpireGroupHosts(g) \/ ExpireGroupLeader(g)
    /\ UNCHANGED <<serverVars, sendVars, execVars, otherVars>>

\* The alpha pool holds any number of clients, up to the bound.
InitMember ==
    /\ AlphaRPCs \in 0..MaxAlpha
    /\ InitCaches
    /\ ExecIdle
    /\ InitServer
    /\ DirIdle
    /\ AlphaIdle
    /\ rangeRes = NoCall
    /\ sends = <<>>

NextMember ==
    \/ \E g \in Groups :
           \E answers \in PollAnswers(GroupHosts[g], HostsAnswers) :
               CallGetGroupHosts(g, answers)
    \/ \E g \in Groups :
           \E answers \in PollAnswers(GroupLeader[g], LeaderAnswers), rpcOk \in BOOLEAN :
               CallGetGroupLeader(g, answers, rpcOk)
    \/ \E g \in Groups :
           \E answers \in PollAnswers(NotCached, ContentAnswers) :
               CallGroupExists(g, answers)
    \/ \E g \in Groups : CacheExpiry(g)

SpecMember == InitMember /\ [][NextMember]_vars

\* ------------------------------------------------ client: command executor
\* utils.ExpectedPlayers(n): the number of results to collect for n hosts, the
\* BFT quorum size of spec 4.10.
ExpectedPlayers(n) == (2 * n) \div 3 + 1

\* utils.PickMajority(hashes): the hashes it may return. The hash held by
\* strictly more than half of the collected ones; without one, any hash held by
\* a plurality (spec 8, scenario 3).
PickMajority(hashes) ==
    LET Count(h) == Cardinality({i \in 1..Len(hashes) : hashes[i] = h})
        seen == {hashes[i] : i \in 1..Len(hashes)}
        strict == {h \in seen : 2 * Count(h) > Len(hashes)}
    IN  IF strict /= {} THEN strict
        ELSE {h \in seen : \A k \in seen : Count(h) >= Count(k)}

\* What ExecCommand returns: a result, or one of its three errors.
Result(data) == [result |-> data]
ErrNoLeader == [err |-> "cannot found leader"]
ErrNoHosts == [err |-> "cannot get group hosts"]
ErrTimeout == [err |-> "does not receive enough response"]

\* The replica a leader client talks to: the host with the client's address.
LeaderHost(client) == client.ServerAddr[1] - 100

\* The result profiles of the group: every replica computes the honest result,
\* except for at most MaxFaulty replicas, which send another one.
ResultProfiles ==
    {f \in [Replicas -> {HonestResult, FaultyResult}] :
        Cardinality({h \in Replicas : f[h] /= HonestResult}) <= MaxFaulty}

\* brc.CmdResChan[groupId][reqId]: the channel registered under reqId (named by
\* the call that made it), or the nil channel when the key is missing.
ChanRef(reqId) ==
    IF CmdResChan.made /\ reqId \in DOMAIN CmdResChan.m
    THEN CmdResChan.m[reqId] ELSE NilChan

\* A plausible slip of the request id: the counter is read without the atomic
\* increment.
AddInt64Lost(counter, delta) == counter

\* atomic.AddInt64(&brc.Counter, delta): the new value.
AddInt64(counter, delta) == counter + delta

\* Lines 128-131: the leader is resolved; without one the call returns the
\* error. (A panic inside GetGroupLeader ends the process.)
ExecStart(c, answers, rpcOk) ==
    /\ main[c].pc = "idle"
    /\ GetGroupLeader(ExecGroup, answers, rpcOk)
    /\ main' = IF lastCall'.ret = Panic THEN main
               ELSE IF lastCall'.ret = Nil
               THEN [main EXCEPT ![c].pc = "done", ![c].ret = ErrNoLeader]
               ELSE [main EXCEPT ![c].pc = "counter", ![c].leader = lastCall'.ret]
    /\ UNCHANGED <<Counter, CmdResChan, chans, leaderTask, collector, waitGroup,
                   delivered, results, serverVars, sendVars>>
    /\ UNCHANGED otherVars

\* Line 132: reqId := uint64(atomic.AddInt64(&brc.Counter, 1)); lines 133-141
\* build and sign the request.
ExecAddCounter(c) ==
    /\ ~clientPanicked
    /\ main[c].pc = "counter"
    /\ Counter' = AddInt64(Counter, 1)
    /\ main' = [main EXCEPT ![c].pc = "checkMap", ![c].reqId = Counter']
    /\ UNCHANGED <<CmdResChan, chans, leaderTask, collector, waitGroup, delivered,
                   results, memberVars, serverVars, sendVars>>
    /\ UNCHANGED otherVars

\* Line 142: _, found := brc.CmdResChan[groupId].
ExecCheckMap(c) ==
    /\ ~clientPanicked
    /\ main[c].pc = "checkMap"
    /\ main' = [main EXCEPT ![c].pc = IF CmdResChan.made THEN "register" ELSE "makeMap"]
    /\ UNCHANGED <<Counter, CmdResChan, chans, leaderTask, collector, waitGroup,
                   delivered, results, memberVars, serverVars, sendVars>>
    /\ UNCHANGED otherVars

\* Line 143: brc.CmdResChan[groupId] = map[uint64]chan []byte{}, a new and empty
\* inner map in place of whatever is there by now.
ExecMakeMap(c) ==
    /\ ~clientPanicked
    /\ main[c].pc = "makeMap"
    /\ CmdResChan' = [made |-> TRUE, m |-> <<>>]
    /\ main' = [main EXCEPT ![c].pc = "register"]
    /\ UNCHANGED <<Counter, chans, leaderTask, collector, waitGroup, delivered,
                   results, memberVars, serverVars, sendVars>>
    /\ UNCHANGED otherVars

\* Lines 145-160: the channel is made and registered under reqId, the close and
\* delete are deferred, and the leader task is started.
ExecRegister(c) ==
    /\ ~clientPanicked
    /\ main[c].pc = "register"
    /\ chans' = [chans EXCEPT ![c] = "open"]
    /\ CmdResChan' = [made |-> TRUE, m |-> (main[c].reqId :> c) @@ CmdResChan.m]
    /\ leaderTask' = [leaderTask EXCEPT ![c].pc = "rpc"]
    /\ main' = [main EXCEPT ![c].pc = "getHosts"]
    /\ UNCHANGED <<Counter, collector, waitGroup, delivered, results, memberVars,
                   serverVars, sendVars>>
    /\ UNCHANGED otherVars

\* Lines 161-183: without hosts the call returns the error; otherwise
\* expectedResponse is computed, wg.Add(expectedResponse), and the collector and
\* the watcher are started.
ExecGetHosts(c, answers) ==
    /\ main[c].pc = "getHosts"
    /\ GetGroupHosts(ExecGroup, answers)
    /\ LET hosts == lastCall'.ret
           expected == ExpectedPlayers(Len(hosts.Nodes))
       IN  IF hosts = Nil
           THEN /\ main' = [main EXCEPT ![c].pc = "deferClose", ![c].ret = ErrNoHosts]
                /\ UNCHANGED <<collector, waitGroup>>
           ELSE /\ main' = [main EXCEPT ![c].pc = "select", ![c].hosts = hosts,
                                        ![c].expected = expected]
                /\ collector' = [collector EXCEPT ![c].pc = "lookup"]
                /\ waitGroup' = [waitGroup EXCEPT ![c] =
                       [n |-> expected, watcher |-> "wait", completed |-> FALSE]]
    /\ UNCHANGED <<Counter, CmdResChan, chans, leaderTask, delivered, results,
                   serverVars, sendVars>>
    /\ UNCHANGED otherVars

\* Lines 185-188: replicationCompleted is ready; the majority hash is picked and
\* its bytes are the result.
ExecComplete(c) ==
    /\ ~clientPanicked
    /\ main[c].pc = "select"
    /\ waitGroup[c].completed
    /\ \E majorityHash \in PickMajority(collector[c].responseHashes) :
          main' = [main EXCEPT ![c].pc = "deferClose",
                      ![c].ret = Result(collector[c].responseReceived[majorityHash])]
    /\ waitGroup' = [waitGroup EXCEPT ![c].completed = FALSE]
    /\ UNCHANGED <<Counter, CmdResChan, chans, leaderTask, collector, delivered,
                   results, memberVars, serverVars, sendVars>>
    /\ UNCHANGED otherVars

\* Lines 189-190: the 10-second timer fires while the call waits in the select.
ExecTimeout(c) ==
    /\ ~clientPanicked
    /\ main[c].pc = "select"
    /\ main' = [main EXCEPT ![c].pc = "deferClose", ![c].ret = ErrTimeout]
    /\ UNCHANGED <<Counter, CmdResChan, chans, leaderTask, collector, waitGroup,
                   delivered, results, memberVars, serverVars, sendVars>>
    /\ UNCHANGED otherVars

\* Line 147, deferred: close(brc.CmdResChan[groupId][reqId]); closing the nil
\* channel, or a closed one, panics.
ExecDeferClose(c) ==
    /\ ~clientPanicked
    /\ main[c].pc = "deferClose"
    /\ LET ch == ChanRef(main[c].reqId)
       IN  IF ch = NilChan \/ chans[ch] /= "open"
           THEN /\ clientPanicked' = TRUE
                /\ UNCHANGED <<chans, main>>
           ELSE /\ chans' = [chans EXCEPT ![ch] = "closed"]
                /\ main' = [main EXCEPT ![c].pc = "deferDelete"]
                /\ UNCHANGED clientPanicked
    /\ UNCHANGED <<Counter, CmdResChan, leaderTask, collector, waitGroup, delivered,
                   results, AlphaRPCs, GroupHosts, GroupLeader, lastCall,
                   serverVars, sendVars>>
    /\ UNCHANGED otherVars

\* A plausible slip of the deferred function: the key is left in the map.
DeleteNothing(m, key) == m

\* delete(m, key): the map without the key.
Delete(m, key) == [r \in (DOMAIN m) \ {key} |-> m[r]]

\* Line 148, deferred: delete(brc.CmdResChan[groupId], reqId); the call returns.
ExecDeferDelete(c) ==
    /\ ~clientPanicked
    /\ main[c].pc = "deferDelete"
    /\ CmdResChan' = [CmdResChan EXCEPT !.m = Delete(@, main[c].reqId)]
    /\ main' = [main EXCEPT ![c].pc = "done"]
    /\ UNCHANGED <<Counter, chans, leaderTask, collector, waitGroup, delivered,
                   results, memberVars, serverVars, sendVars>>
    /\ UNCHANGED otherVars

\* Lines 174-177: the collector has received bytes: it hashes and stores them,
\* calls wg.Done() and goes on to the next round, or ends after the last.
Received(col, expected, bytes) ==
    LET hash == HashData(bytes)
    IN  [pc |-> IF col.i + 1 < expected THEN "lookup" ELSE "done",
         ch |-> NilChan,
         i |-> col.i + 1,
         responseHashes |-> Append(col.responseHashes, hash),
         responseReceived |-> (hash :> bytes) @@ col.responseReceived]

\* The collector d takes bytes from its channel.
Receive(d, bytes) ==
    /\ collector' = [collector EXCEPT ![d] = Received(@, main[d].expected, bytes)]
    /\ waitGroup' = [waitGroup EXCEPT ![d].n = @ - 1]

\* The collectors blocked in a receive on channel ch.
Receivers(ch) == {d \in Calls : collector[d].pc = "recv" /\ collector[d].ch = ch}

\* Line 151: the leader's RPC returns: with an error, which is logged, or with
\* the leader's result, and the task evaluates the channel to send it on.
LeaderRPCReturn(c, ok) ==
    /\ ~clientPanicked
    /\ leaderTask[c].pc = "rpc"
    /\ leaderTask' = [leaderTask EXCEPT ![c] =
           IF ok
           THEN [pc |-> "send", ch |-> ChanRef(main[c].reqId),
                 res |-> results[LeaderHost(main[c].leader)]]
           ELSE [pc |-> "failed", ch |-> NilChan, res |-> NilBytes]]
    /\ UNCHANGED <<Counter, CmdResChan, chans, main, collector, waitGroup, delivered,
                   results, memberVars, serverVars, sendVars>>
    /\ UNCHANGED otherVars

\* Line 155: the send on the unbuffered channel meets a receive of the collector.
LeaderSend(c) ==
    /\ ~clientPanicked
    /\ leaderTask[c].pc = "send"
    /\ leaderTask[c].ch /= NilChan
    /\ chans[leaderTask[c].ch] = "open"
    /\ \E d \in Receivers(leaderTask[c].ch) : Receive(d, leaderTask[c].res)
    /\ leaderTask' = [leaderTask EXCEPT ![c].pc = "done"]
    /\ UNCHANGED <<Counter, CmdResChan, chans, main, delivered, results, memberVars,
                   serverVars, sendVars>>
    /\ UNCHANGED otherVars

\* Line 155: the channel was closed before or during the send: the send panics.
LeaderSendClosed(c) ==
    /\ ~clientPanicked
    /\ leaderTask[c].pc = "send"
    /\ leaderTask[c].ch /= NilChan
    /\ chans[leaderTask[c].ch] = "closed"
    /\ leaderTask' = [leaderTask EXCEPT ![c].pc = "panic"]
    /\ clientPanicked' = TRUE
    /\ UNCHANGED <<Counter, CmdResChan, chans, main, collector, waitGroup, delivered,
                   results, AlphaRPCs, GroupHosts, GroupLeader, lastCall,
                   serverVars, sendVars>>
    /\ UNCHANGED otherVars

\* Line 173: the collector evaluates brc.CmdResChan[groupId][reqId] and blocks in
\* the receive on that channel (for ever, on the nil channel).
CollectorLookup(c) ==
    /\ ~clientPanicked
    /\ collector[c].pc = "lookup"
    /\ collector' = [collector EXCEPT ![c].pc = "recv",
                                      ![c].ch = ChanRef(main[c].reqId)]
    /\ UNCHANGED <<Counter, CmdResChan, chans, main, leaderTask, waitGroup, delivered,
                   results, memberVars, serverVars, sendVars>>
    /\ UNCHANGED otherVars

\* Line 173: a receive on a closed channel yields the zero value at once.
CollectorRecvClosed(c) ==
    /\ ~clientPanicked
    /\ collector[c].pc = "recv"
    /\ collector[c].ch /= NilChan
    /\ chans[collector[c].ch] = "closed"
    /\ Receive(c, NilBytes)
    /\ UNCHANGED <<Counter, CmdResChan, chans, main, leaderTask, delivered, results,
                   memberVars, serverVars, sendVars>>
    /\ UNCHANGED otherVars

\* A plausible slip of the watcher: wg.Add is missing, so wg.Wait() returns at
\* once.
WaitReturnsAtOnce(c) == TRUE

\* Line 181: wg.Wait() returns when the counter is zero.
WaitReturns(c) == waitGroup[c].n = 0

\* Lines 181-182: the watcher passes wg.Wait() and signals replicationCompleted
\* (buffered: the send does not block).
WatcherSignal(c) ==
    /\ ~clientPanicked
    /\ waitGroup[c].watcher = "wait"
    /\ WaitReturns(c)
    /\ waitGroup' = [waitGroup EXCEPT ![c].watcher = "done", ![c].completed = TRUE]
    /\ UNCHANGED <<Counter, CmdResChan, chans, main, leaderTask, collector, delivered,
                   results, memberVars, serverVars, sendVars>>
    /\ UNCHANGED otherVars

\* Replica h delivers its one result for call c's request into the inbox
\* registered under the request id, where the collector receives it.
Deliver(c, h) ==
    /\ ~clientPanicked
    /\ leaderTask[c].pc /= "none"
    /\ h \notin delivered[c]
    /\ LET ch == ChanRef(main[c].reqId)
       IN  /\ ch /= NilChan
           /\ chans[ch] = "open"
           /\ \E d \in Receivers(ch) : Receive(d, results[h])
    /\ delivered' = [delivered EXCEPT ![c] = @ \cup {h}]
    /\ UNCHANGED <<Counter, CmdResChan, chans, main, leaderTask, results, memberVars,
                   serverVars, sendVars>>
    /\ UNCHANGED otherVars

\* One call, with a single alpha client to resolve the leader and the hosts.
TheCall == {1}

InitExec ==
    /\ AlphaRPCs = 1
    /\ InitCaches
    /\ InitExecState
    /\ results \in ResultProfiles
    /\ InitServer
    /\ DirIdle
    /\ AlphaIdle
    /\ rangeRes = NoCall
    /\ sends = <<>>

NextExec ==
    \/ \E c \in TheCall :
           \E answers \in PollAnswers(GroupLeader[ExecGroup], LeaderAnswers),
              rpcOk \in BOOLEAN : ExecStart(c, answers, rpcOk)
    \/ \E c \in TheCall : ExecAddCounter(c)
    \/ \E c \in TheCall : ExecCheckMap(c)
    \/ \E c \in TheCall : ExecMakeMap(c)
    \/ \E c \in TheCall : ExecRegister(c)
    \/ \E c \in TheCall :
           \E answers \in PollAnswers(GroupHosts[ExecGroup], HostsAnswers) :
               ExecGetHosts(c, answers)
    \/ \E c \in TheCall : ExecComplete(c)
    \/ \E c \in TheCall : ExecTimeout(c)
    \/ \E c \in TheCall : ExecDeferClose(c)
    \/ \E c \in TheCall : ExecDeferDelete(c)
    \/ \E c \in TheCall, ok \in BOOLEAN : LeaderRPCReturn(c, ok)
    \/ \E c \in TheCall : LeaderSend(c)
    \/ \E c \in TheCall : LeaderSendClosed(c)
    \/ \E c \in TheCall : CollectorLookup(c)
    \/ \E c \in TheCall : CollectorRecvClosed(c)
    \/ \E c \in TheCall : WatcherSignal(c)
    \/ \E c \in TheCall, h \in Replicas : Deliver(c, h)

SpecExec == InitExec /\ [][NextExec]_vars

\* The scheduler runs every task of the client that can take a step, and the
\* replicas go on delivering while their results can be taken.
SpecExecFair == SpecExec /\ WF_vars(NextExec)

\* Concurrent calls whose leader is found while the alpha node fails to answer
\* for the hosts: every call registers its inbox, starts its leader task and
\* leaves through the deferred close and delete.
UnreachableAnswers == <<[err |-> TRUE]>>

InitCalls ==
    /\ AlphaRPCs = 1
    /\ InitCaches
    /\ InitExecState
    /\ results = [h \in Replicas |-> HonestResult]
    /\ InitServer
    /\ DirIdle
    /\ AlphaIdle
    /\ rangeRes = NoCall
    /\ sends = <<>>

NextCalls ==
    \/ \E c \in Calls :
           \E answers \in PollAnswers(GroupLeader[ExecGroup], LeaderAnswers),
              rpcOk \in BOOLEAN : ExecStart(c, answers, rpcOk)
    \/ \E c \in Calls : ExecAddCounter(c)
    \/ \E c \in Calls : ExecCheckMap(c)
    \/ \E c \in Calls : ExecMakeMap(c)
    \/ \E c \in Calls : ExecRegister(c)
    \/ \E c \in Calls :
           \E answers \in PollAnswers(GroupHosts[ExecGroup], UnreachableAnswers) :
               ExecGetHosts(c, answers)
    \/ \E c \in Calls : ExecDeferClose(c)
    \/ \E c \in Calls : ExecDeferDelete(c)
    \/ \E c \in Calls, ok \in BOOLEAN : LeaderRPCReturn(c, ok)
    \/ \E c \in Calls : LeaderSendClosed(c)

SpecCalls == InitCalls /\ [][NextCalls]_vars

\* ------------------------------------------------ server: peer directory
\* pb.Peer, and the peer with id p: peer p is hosted by node p.
Peer(id, host) == [Id |-> id, Host |-> host]
ZeroPeer == Peer(0, 0)

\* proto.Marshal of a Peer: every field as its tag followed by its value.
Marshal(peer) == <<1, peer.Id, 2, peer.Host>>

\* proto.Unmarshal(data, &peer): the fields are read tag by tag into the
\* message; on a truncated field or an unknown tag it stops with an error and
\* leaves in the message what it has read so far.
RECURSIVE UnmarshalInto(_, _)
UnmarshalInto(peer, data) ==
    IF data = <<>> THEN [peer |-> peer, err |-> FALSE]
    ELSE IF Len(data) < 2 THEN [peer |-> peer, err |-> TRUE]
    ELSE IF data[1] = 1
         THEN UnmarshalInto([peer EXCEPT !.Id = data[2]], SubSeq(data, 3, Len(data)))
    ELSE IF data[1] = 2
         THEN UnmarshalInto([peer EXCEPT !.Host = data[2]], SubSeq(data, 3, Len(data)))
    ELSE [peer |-> peer, err |-> TRUE]

Unmarshal(data) == UnmarshalInto(ZeroPeer, data)

\* What the store may hold under peer p's key: no row, the peer's bytes, or
\* bytes cut off inside the Host field.
RowValues(p) == {Absent, Marshal(Peer(p, p)), <<1, p, 2>>}

\* The keys with the group's prefix that hold a row, in the store's key order:
\* ascending peer id.
StoredIds(store) ==
    SelectSeq([i \in 1..MaxPeers |-> i], LAMBDA p : store[p] /= Absent)

\* A plausible slip of GetPeer: the fresh peer is returned but not cached.
GetPeerWithoutSet(cache, store, objects, peer_id) ==
    IF cache[peer_id] /= NoPtr
    THEN [ret |-> cache[peer_id], cache |-> cache, objects |-> objects]
    ELSE IF store[peer_id] = Absent
    THEN [ret |-> NoPtr, cache |-> cache, objects |-> objects]
    ELSE [ret |-> Len(objects) + 1, cache |-> cache,
          objects |-> Append(objects, Unmarshal(store[peer_id]).peer)]

\* GetPeer(group, peer_id): the cached pointer on a hit; otherwise the row is
\* read, nil is returned for no row, and else a new pb.Peer is allocated,
\* proto.Unmarshal fills it (its error is dropped), and its pointer is cached
\* and returned.
GetPeer(cache, store, objects, peer_id) ==
    IF cache[peer_id] /= NoPtr
    THEN [ret |-> cache[peer_id], cache |-> cache, objects |-> objects]
    ELSE IF store[peer_id] = Absent
    THEN [ret |-> NoPtr, cache |-> cache, objects |-> objects]
    ELSE [ret |-> Len(objects) + 1,
          cache |-> [cache EXCEPT ![peer_id] = Len(objects) + 1],
          objects |-> Append(objects, Unmarshal(store[peer_id]).peer)]

\* A GetPeer call allocates when it misses the cache and finds a row.
Allocates(peer_id) == Peers[peer_id] = NoPtr /\ kv[peer_id] /= Absent

\* The effect of one GetPeer call on the heap, the cache and the call records.
DoGetPeer(peer_id) ==
    LET r == GetPeer(Peers, kv, heap, peer_id)
    IN  /\ Allocates(peer_id) => Len(heap) < MaxAllocs
        /\ heap' = r.objects
        /\ Peers' = r.cache
        /\ peerCall' = [op |-> "GetPeer", id |-> peer_id, ret |-> r.ret,
                        hit |-> Peers[peer_id] /= NoPtr]
        /\ peerReturned' = [peerReturned EXCEPT ![peer_id] =
                                [known |-> TRUE, ret |-> r.ret]]

\* GetPeer called on its own.
CallGetPeer(peer_id) ==
    /\ DoGetPeer(peer_id)
    /\ UNCHANGED <<kv, GroupsPeers, groupPeers>>
    /\ UNCHANGED <<serverVars, sendVars, clientVars, Lock, alphaCall>>

\* The TTL of s.Peers: the entry of a key expires.
ExpirePeer(peer_id) ==
    /\ Peers[peer_id] /= NoPtr
    /\ Peers' = [Peers EXCEPT ![peer_id] = NoPtr]
    /\ peerReturned' = [peerReturned EXCEPT ![peer_id] = [known |-> FALSE]]
    /\ UNCHANGED <<kv, heap, GroupsPeers, peerCall, groupPeers>>
    /\ UNCHANGED <<serverVars, sendVars, clientVars, Lock, alphaCall>>

\* The TTL of s.GroupsPeers: the group's list expires.
ExpireGroupsPeers ==
    /\ GroupsPeers /= NotCached
    /\ GroupsPeers' = NotCached
    /\ UNCHANGED <<kv, heap, Peers, peerCall, peerReturned, groupPeers>>
    /\ UNCHANGED <<serverVars, sendVars, clientVars, Lock, alphaCall>>

\* GroupServerPeer's loop over the list: the first peer whose Host is s.Id, or
\* nil; reading peer.Host of a nil element panics.
RECURSIVE ServerPeerFrom(_, _, _)
ServerPeerFrom(peers, i, objects) ==
    IF i > Len(peers) THEN [ptr |-> NoPtr]
    ELSE IF peers[i] = NoPtr THEN Panic
    ELSE IF objects[peers[i]].Host = ServerHost THEN [ptr |-> peers[i]]
    ELSE ServerPeerFrom(peers, i + 1, objects)

\* What the caller gets once GetGroupPeers has its list: the list itself, or
\* GroupServerPeer's pick from it.
Finished(caller, peers, objects) ==
    [pc |-> "done", caller |-> caller, peers |-> peers,
     ret |-> IF caller = "GroupServerPeer"
             THEN ServerPeerFrom(peers, 1, objects) ELSE [list |-> peers]]

\* Lines 14-21: GetGroupPeers is entered, by a caller of its own or by
\* GroupServerPeer. A cached list is returned at once; otherwise the iterator
\* is made and seeks the first key with the group's prefix.
GroupPeersStart(caller) ==
    /\ groupPeers.pc \in {"idle", "done"}
    /\ groupPeers' =
           IF GroupsPeers /= NotCached
           THEN Finished(caller, GroupsPeers.list, heap)
           ELSE [pc |-> "loop", caller |-> caller, peers |-> <<>>, pos |-> 1]
    /\ UNCHANGED <<kv, heap, Peers, GroupsPeers, peerCall, peerReturned>>
    /\ UNCHANGED <<serverVars, sendVars, clientVars, Lock, alphaCall>>

\* Lines 22-26: one round of the loop. While the iterator stands on a key with
\* the prefix, the peer id is cut from the key and GetPeer's result is appended;
\* the body does not move the iterator.
GroupPeersLoop ==
    /\ groupPeers.pc = "loop"
    /\ groupPeers.pos <= Len(StoredIds(kv))
    /\ Len(groupPeers.peers) < MaxScan
    /\ LET peer_id == StoredIds(kv)[groupPeers.pos]
       IN  /\ DoGetPeer(peer_id)
           /\ groupPeers' = [groupPeers EXCEPT !.peers = Append(@, peerCall'.ret)]
    /\ UNCHANGED <<kv, GroupsPeers>>
    /\ UNCHANGED <<serverVars, sendVars, clientVars, Lock, alphaCall>>

\* Lines 22, 27-28: the iterator is past the prefix: the list is cached and
\* returned.
GroupPeersReturn ==
    /\ groupPeers.pc = "loop"
    /\ groupPeers.pos > Len(StoredIds(kv))
    /\ GroupsPeers' = [list |-> groupPeers.peers]
    /\ groupPeers' = Finished(groupPeers.caller, groupPeers.peers, heap)
    /\ UNCHANGED <<kv, heap, Peers, peerCall, peerReturned>>
    /\ UNCHANGED <<serverVars, sendVars, clientVars, Lock, alphaCall>>

Callers == {"GetGroupPeers", "GroupServerPeer"}

\* The store holds any rows of the group; the directory is fresh.
InitDir ==
    /\ kv \in {f \in [PeerIds -> UNION {RowValues(p) : p \in PeerIds}] :
                  \A p \in PeerIds : f[p] \in RowValues(p)}
    /\ InitDirState
    /\ AlphaIdle
    /\ InitServer
    /\ rangeRes = NoCall
    /\ sends = <<>>
    /\ MemberIdle

NextDir ==
    \/ \E p \in PeerIds : CallGetPeer(p)
    \/ \E p \in PeerIds : ExpirePeer(p)
    \/ ExpireGroupsPeers
    \/ \E caller \in Callers : GroupPeersStart(caller)
    \/ GroupPeersLoop
    \/ GroupPeersReturn

SpecDir == InitDir /\ [][NextDir]_vars

\* The scheduler keeps running a GetGroupPeers call that can take a step.
SpecDirFair == SpecDir /\ WF_vars(GroupPeersLoop) /\ WF_vars(GroupPeersReturn)

\* ------------------------------------------------- utils: alpha bootstrap
\* What becomes of one bootstrap address: no RPC client can be opened for it
\* (GetClusterRPC fails), or a client is opened and its GroupHosts RPC answers.
Unopened == [opened |-> FALSE]
ServerFates ==
    {Unopened} \cup
    {[opened |-> TRUE, answer |-> HostsAnswers[k]] : k \in 1..Len(HostsAnswers)}

\* The closure of AlphaNodes: (nodes, NodesSignData(nodes.Nodes)), or (a nil
\* response, []byte{}) on an RPC error.
AlphaNodesQuery(a) ==
    IF ~a.err
    THEN [result |-> [Nodes |-> a.Nodes], feature |-> NodesSignData(a.Nodes)]
    ELSE [result |-> Nil, feature |-> <<>>]

\* AlphaNodes(servers): the clients that could be opened are collected, the
\* quorum query runs over these clients, and the Nodes of its result are
\* returned, or nil without a result.
AlphaNodes(servers) ==
    LET bootstrapServers == SelectSeq(servers, LAMBDA sv : sv.opened)
    IN  MajorityResponse([i \in 1..Len(bootstrapServers) |->
                             AlphaNodesQuery(bootstrapServers[i].answer)])

CallAlphaNodes(servers) ==
    /\ \E res \in AlphaNodes(servers) :
          alphaCall' = [op |-> "AlphaNodes", servers |-> servers, ret |-> res]
    /\ UNCHANGED <<serverVars, sendVars, clientVars, Lock, dirVars>>

InitAlpha ==
    /\ AlphaIdle
    /\ DirIdle
    /\ InitServer
    /\ rangeRes = NoCall
    /\ sends = <<>>
    /\ MemberIdle

NextAlpha ==
    \E n \in 0..MaxServers : \E servers \in [1..n -> ServerFates] :
        CallAlphaNodes(servers)

SpecAlpha == InitAlpha /\ [][NextAlpha]_vars

\* ==================================================================== claims
\* The entries of l whose Index is at least k, in the order of l (ascending).
SuffixFrom(l, k) == SelectSeq(l, LAMBDA e : e.Index >= k)

\* The last entry of a non-empty log.
LastEntry(l) == l[Len(l)]

\* C3: for any log L and any nextIndex k, the entries PeerUncommittedLogEntries
\* returns are exactly the entries of L with index >= k, in ascending index order
\* (the empty list when there is none).
C3_EntriesAreSuffix ==
    rangeRes.called =>
        rangeRes.out.entries = SuffixFrom(rangeRes.log, rangeRes.nextIndex)

\* C3's case: a call that returned a proper, non-trivial suffix of the log.
C3_Witness ==
    /\ rangeRes.called
    /\ Len(rangeRes.out.entries) >= 2
    /\ Len(rangeRes.out.entries) < Len(rangeRes.log)

\* C4 as claimed: prevEntry is the entry with index k-1 when k >= 2 and L holds
\* index k-1, and the sentinel {0,0} otherwise; with nextIndex 0 or 1 on a
\* non-empty log every entry is returned and prevEntry is the sentinel, never one
\* of the returned entries.
C4_AnchorAsClaimed ==
    rangeRes.called =>
        LET k == rangeRes.nextIndex
            l == rangeRes.log
            out == rangeRes.out
        IN  /\ out.prevEntry =
                   IF k >= 2 /\ \E i \in 1..Len(l) : l[i].Index = k - 1
                   THEN (CHOOSE e \in {l[i] : i \in 1..Len(l)} : e.Index = k - 1)
                   ELSE SentinelEntry
            /\ (k <= 1 /\ Len(l) > 0) =>
                   /\ out.entries = l
                   /\ out.prevEntry = SentinelEntry
                   /\ \A i \in 1..Len(out.entries) : out.entries[i] /= out.prevEntry

\* C5: with nextIndex above the last entry's index the call returns no entries
\* and the last log entry as prevEntry; on an empty log it returns no entries and
\* the sentinel {0,0}.
C5_BeyondLastEntry ==
    rangeRes.called =>
        LET k == rangeRes.nextIndex
            l == rangeRes.log
            out == rangeRes.out
        IN  /\ (Len(l) > 0 /\ k > LastEntry(l).Index) =>
                   (out.entries = <<>> /\ out.prevEntry = LastEntry(l))
            /\ Len(l) = 0 =>
                   (out.entries = <<>> /\ out.prevEntry = SentinelEntry)

\* C5's case: a call on a non-empty log with nextIndex more than one past its end.
C5_Witness ==
    /\ rangeRes.called
    /\ Len(rangeRes.log) > 0
    /\ rangeRes.nextIndex > LastEntry(rangeRes.log).Index + 1
    /\ rangeRes.out.prevEntry = LastEntry(rangeRes.log)

\* C10 as claimed: once a SendPeerUncommittedLogEntries call and its task have
\* run to their end, an AppendEntries RPC has been issued exactly when the peer's
\* node is known and a client for its address was obtained from the pool (also on
\* an empty log, then with the sentinel anchor); otherwise nothing is issued.
C10_DispatchAsClaimed ==
    \A i \in 1..Len(sends) :
        sends[i].pc \in {"none", "sent", "panic"} =>
            /\ (sends[i].pc = "sent") <=> (sends[i].node /\ sends[i].client)
            /\ (sends[i].pc = "sent" /\ sends[i].request.Entries = <<>>
                    /\ sends[i].request.PrevLogIndex = 0) =>
                   sends[i].request.PrevLogTerm = 0

\* The alpha clients of a poll whose answer carried exactly these canonical bytes.
HostsSupporters(answers, bytes) ==
    {i \in 1..Len(answers) :
        ~answers[i].err /\ NodesSignData(answers[i].Nodes) = bytes}
LeaderSupporters(answers, addr) ==
    {i \in 1..Len(answers) :
        ~answers[i].err /\ answers[i].Node /= Nil /\ answers[i].Node.ServerAddr = addr}

\* A membership call that polled the alpha pool and got no quorum result.
FailedPoll(call) ==
    /\ call.op \in {"GetGroupHosts", "GetGroupLeader"}
    /\ call.polled
    /\ call.ret /= Panic
    /\ call.res = Nil

\* C8: a value enters the GroupHosts or the GroupLeader cache only in a call that
\* polled the alpha pool, as (a client for) the quorum result of that poll, whose
\* canonical bytes strictly more than half of the polled clients answered; a poll
\* without a quorum result returns nil and leaves the group's cache entry empty,
\* so that the next call for the group polls again.
C8_CachesHoldMajorityValues ==
    /\ [][\A g \in Groups :
            (GroupHosts'[g] /= GroupHosts[g] /\ GroupHosts'[g] /= NotCached) =>
                /\ lastCall'.op = "GetGroupHosts" /\ lastCall'.group = g
                /\ lastCall'.polled
                /\ GroupHosts'[g] = lastCall'.res
                /\ 2 * Cardinality(HostsSupporters(lastCall'.answers,
                                       NodesSignData(GroupHosts'[g].Nodes)))
                       > Len(lastCall'.answers)]_vars
    /\ [][\A g \in Groups :
            (GroupLeader'[g] /= GroupLeader[g] /\ GroupLeader'[g] /= NotCached) =>
                /\ lastCall'.op = "GetGroupLeader" /\ lastCall'.group = g
                /\ lastCall'.polled
                /\ lastCall'.res /= Nil
                /\ GroupLeader'[g] = ClusterRPC(lastCall'.res.ServerAddr)
                /\ 2 * Cardinality(LeaderSupporters(lastCall'.answers,
                                       GroupLeader'[g].ServerAddr))
                       > Len(lastCall'.answers)]_vars
    /\ [](FailedPoll(lastCall) =>
            /\ lastCall.ret = Nil
            /\ lastCall.op = "GetGroupHosts" => GroupHosts[lastCall.group] = NotCached
            /\ lastCall.op = "GetGroupLeader" => GroupLeader[lastCall.group] = NotCached)
    /\ [][(FailedPoll(lastCall) /\ lastCall' /= lastCall
             /\ lastCall'.op = lastCall.op /\ lastCall'.group = lastCall.group) =>
                lastCall'.polled]_vars

\* C8's case: a host list is cached that two of three alpha clients answered
\* while the third answered another list.
C8_Witness ==
    /\ lastCall.op = "GetGroupHosts" /\ lastCall.polled
    /\ Len(lastCall.answers) = 3
    /\ lastCall.res /= Nil
    /\ GroupHosts[lastCall.group] = lastCall.res
    /\ \E i \in 1..3 : ~lastCall.answers[i].err
                          /\ lastCall.answers[i].Nodes /= lastCall.res.Nodes

\* C9 as claimed: GroupExists, GetGroupLeader and GetGroupHosts return normally
\* for every combination of alpha answers; none of them panics.
C9_NoPanicAsClaimed ==
    /\ ~clientPanicked
    /\ lastCall.op /= "none" => lastCall.ret /= Panic

\* A call has returned (its deferred calls done) with a result, not an error.
IsResult(r) == "result" \in DOMAIN r
Returned(c) == main[c].pc = "done"
ReturnedResult(c) == Returned(c) /\ IsResult(main[c].ret)

\* The replicas of the group whose result hashes like the given bytes.
Producers(bytes) == {h \in Replicas : HashData(results[h]) = HashData(bytes)}

\* C1 as claimed: ExecCommand returns a result only if at least
\* expectedPlayers(|hosts|) replicas of the group produced results with the hash
\* of the returned bytes, in whatever order the leader's RPC response and the
\* replicas' deliveries reach the inbox.
C1_QuorumOfEqualResultsAsClaimed ==
    \A c \in Calls :
        ReturnedResult(c) =>
            Cardinality(Producers(main[c].ret.result)) >= main[c].expected

\* C2 as claimed: with four hosts (expected = 3), three replicas producing the
\* same result r and one producing another, every call that returns a result
\* returns r, whichever deliveries (the leader's RPC response among them) are the
\* first three collected.
C2_ByzantineMinorityAsClaimed ==
    \A c \in Calls :
        ( /\ ReturnedResult(c)
          /\ Len(main[c].hosts.Nodes) = 4
          /\ main[c].expected = 3
          /\ Cardinality({h \in Replicas : results[h] = HonestResult}) = 3
          /\ Cardinality({h \in Replicas : results[h] /= HonestResult}) = 1 )
        => main[c].ret.result = HonestResult

\* C6: a call that leaves the select while fewer than expectedPlayers(|hosts|)
\* results have been taken from its inbox returns the timeout error and no
\* result; a call never holds a result before `expected` results were collected.
C6_TimeoutUnlessCollected ==
    /\ [][\A c \in Calls :
            ( /\ main[c].pc = "select"
              /\ main'[c].pc /= "select"
              /\ Len(collector[c].responseHashes) < main[c].expected )
            => main'[c].ret = ErrTimeout]_vars
    /\ [](\A c \in Calls :
            IsResult(main[c].ret) =>
                /\ main[c].expected = ExpectedPlayers(Len(main[c].hosts.Nodes))
                /\ Len(collector[c].responseHashes) >= main[c].expected)

\* C6's case: with four hosts one result arrived and the call returned the
\* timeout error.
C6_Witness ==
    \E c \in Calls :
        /\ Returned(c)
        /\ main[c].ret = ErrTimeout
        /\ main[c].expected = 3
        /\ Len(collector[c].responseHashes) = 1

\* The calls that have obtained their request id.
HasRequestId(c) == main[c].pc \notin {"idle", "counter"} /\ main[c].leader /= Nil

\* C7: under any interleaving of concurrent ExecCommand calls the counter never
\* decreases, no two calls obtain the same requestId, and no two registered
\* inboxes of the group share a key: every key of the inner map names the
\* channel of the one call that holds that requestId.
C7_RequestIdsUnique ==
    /\ [][Counter' >= Counter]_vars
    /\ [](\A c, d \in Calls :
            (c /= d /\ HasRequestId(c) /\ HasRequestId(d)) =>
                main[c].reqId /= main[d].reqId)
    /\ [](\A r \in DOMAIN CmdResChan.m : main[CmdResChan.m[r]].reqId = r)

\* C7's case: two calls are in flight at once, both past their increment of the
\* counter and both registered under their request ids.
C7_Witness ==
    \E c, d \in Calls :
        /\ c /= d
        /\ main[c].pc = "getHosts" /\ main[d].pc = "getHosts"
        /\ {main[c].reqId, main[d].reqId} \subseteq DOMAIN CmdResChan.m

\* The pointers of a list point at peers with exactly these ids, in this order.
PointsAt(peers, ids) ==
    /\ Len(peers) = Len(ids)
    /\ \A i \in 1..Len(ids) : peers[i] /= NoPtr /\ heap[peers[i]].Id = ids[i]

\* C11 as claimed: on a cache miss GetGroupPeers terminates, with one peer per
\* stored row of the group in ascending peer-id order, and the list it returns
\* is the one it cached; for a group without rows the list is empty and
\* GroupServerPeer returns nil.
C11_GroupPeersAsClaimed ==
    /\ (groupPeers.pc = "loop") ~> (groupPeers.pc = "done")
    /\ [](groupPeers.pc = "loop" => Len(groupPeers.peers) <= Len(StoredIds(kv)))
    /\ [][(groupPeers.pc = "loop" /\ groupPeers'.pc = "done") =>
              /\ PointsAt(groupPeers'.peers, StoredIds(kv))
              /\ GroupsPeers' = [list |-> groupPeers'.peers]]_vars
    /\ []((groupPeers.pc = "done" /\ StoredIds(kv) = <<>>) =>
              /\ groupPeers.peers = <<>>
              /\ groupPeers.caller = "GroupServerPeer" =>
                     groupPeers.ret = [ptr |-> NoPtr])

\* This step is a GetPeer call for the key p.
CalledGetPeer(p) ==
    peerCall' /= peerCall /\ peerCall'.op = "GetPeer" /\ peerCall'.id = p

\* C12: a GetPeer call that follows another for the same key, with no expiry of
\* the key in between, returns the pointer the earlier call returned, whether
\* that call hit the cache or missed it; a call that misses the cache (the key
\* never set, or expired) returns a peer equal to the deserialization of the row.
C12_GetPeerIdempotent ==
    [][\A p \in PeerIds :
          CalledGetPeer(p) =>
              /\ peerReturned[p].known => peerCall'.ret = peerReturned[p].ret
              /\ (Peers[p] = NoPtr /\ kv[p] /= Absent) =>
                     /\ peerCall'.ret /= NoPtr
                     /\ heap'[peerCall'.ret] = Unmarshal(kv[p]).peer]_vars

\* C12's case: a key was read, expired and read again, so that two objects were
\* allocated for it, and a further call hit the cache and got the second.
C12_Witness ==
    /\ peerCall.op = "GetPeer" /\ peerCall.hit
    /\ peerCall.ret = 2
    /\ heap[1] = heap[2]
    /\ peerReturned[peerCall.id] = [known |-> TRUE, ret |-> 2]

\* C18 as claimed: for a row whose bytes cannot be deserialized GetPeer returns
\* nil and caches nothing.
C18_MalformedRowAsClaimed ==
    \A p \in PeerIds :
        (kv[p] /= Absent /\ Unmarshal(kv[p]).err) =>
            /\ Peers[p] = NoPtr
            /\ (peerCall.op = "GetPeer" /\ peerCall.id = p) => peerCall.ret = NoPtr

\* C13 as claimed: no send into a request's inbox, by the leader task or by a
\* delivery, meets a closed channel, however the deferred close and delete of
\* the returning call interleave with it: no task panics in a send.
C13_NoSendOnClosedAsClaimed ==
    \A c \in Calls : leaderTask[c].pc /= "panic"

\* A call is between its test of the outer map (line 142) and its write of the
\* inbox under its request id (line 145).
InMapSection(c) == main[c].pc \in {"makeMap", "register"}

\* C14 as claimed: every step that changes the CmdResChan map is taken with the
\* client-wide lock held, and no two concurrent calls are inside their accesses
\* of the map at the same time.
C14_MapAccessUnderLockAsClaimed ==
    /\ [][CmdResChan' /= CmdResChan => Lock /= "unlocked"]_vars
    /\ [](\A c, d \in Calls : (InMapSection(c) /\ InMapSection(d)) => c = d)

\* The three tasks of a call have ended, or were never started.
TasksEnded(c) ==
    /\ leaderTask[c].pc \in {"none", "done", "failed"}
    /\ collector[c].pc \in {"none", "done"}
    /\ waitGroup[c].watcher \in {"none", "done"}

\* C15 as claimed: after an ExecCommand call has returned, on whatever path, its
\* leader task, its collector and its watcher all end eventually (a panic ends
\* them with the process).
C15_TasksEndAsClaimed ==
    \A c \in Calls : [](Returned(c) => <>(TasksEnded(c) \/ clientPanicked))

\* C16: whenever ExecCommand has returned after registering its inbox (with a
\* result, the timeout error or the missing-hosts error), CmdResChan holds no
\* channel under the call's request id; and at the step that starts the leader's
\* RPC the open inbox is registered under the request id.
C16_InboxDeregistered ==
    /\ [](\A c \in Calls :
            (Returned(c) /\ main[c].ret /= ErrNoLeader) =>
                main[c].reqId \notin DOMAIN CmdResChan.m)
    /\ [][\A c \in Calls :
            (leaderTask[c].pc = "none" /\ leaderTask'[c].pc = "rpc") =>
                /\ main[c].reqId \in DOMAIN CmdResChan'.m
                /\ chans'[CmdResChan'.m[main[c].reqId]] = "open"]_vars

\* C16's case: a call that registered its inbox has returned with a result.
C16_Witness ==
    \E c \in Calls :
        /\ ReturnedResult(c)
        /\ chans[c] = "closed"
        /\ main[c].reqId \notin DOMAIN CmdResChan.m

\* The canonical bytes the closure of a membership call gave for an answer whose
\* RPC failed.
FailureFeature(op, a) ==
    IF op = "GetGroupHosts" THEN GroupHostsQuery(a).feature
    ELSE IF op = "GetGroupLeader" THEN GroupLeaderQuery(a).feature
    ELSE GroupExistsQuery(a).feature

\* C17 as claimed: in every quorum query of the client an alpha client whose RPC
\* failed contributed empty canonical bytes, and no quorum result rests on
\* failed RPCs alone.
C17_FailuresAbstainAsClaimed ==
    (lastCall.op /= "none" /\ lastCall.polled) =>
        /\ \A i \in 1..Len(lastCall.answers) :
               lastCall.answers[i].err =>
                   FailureFeature(lastCall.op, lastCall.answers[i]) = <<>>
        /\ (lastCall.res /= Nil /\ lastCall.ret /= Panic) =>
               \E i \in 1..Len(lastCall.answers) : ~lastCall.answers[i].err

\* The bootstrap addresses of a call whose server answered these canonical bytes.
AlphaSupporters(servers, bytes) ==
    {i \in 1..Len(servers) :
        /\ servers[i].opened
        /\ ~servers[i].answer.err
        /\ NodesSignData(servers[i].answer.Nodes) = bytes}

\* C19 as claimed: AlphaNodes returns a host list only if strictly more than
\* half of the bootstrap addresses it was given answered the byte-identical
\* NodesSignData of that list; addresses for which no client could be opened
\* count in the denominator.
C19_AlphaMajorityAsClaimed ==
    (alphaCall.op = "AlphaNodes" /\ alphaCall.ret /= Nil) =>
        2 * Cardinality(AlphaSupporters(alphaCall.servers,
                                        NodesSignData(alphaCall.ret.Nodes)))
            > Len(alphaCall.servers)

\* C20 as claimed: every AppendEntries request that was dispatched carries a
\* signature over exactly the Group, Term, PrevLogIndex and PrevLogTerm of that
\* same request, also when the group's term or the peer's nextIndex changed
\* while the dispatch task ran.
C20_SignatureMatchesRequestAsClaimed ==
    \A i \in 1..Len(sends) :
        sends[i].pc = "sent" =>
            LET req == sends[i].request
            IN  req.Signature =
                    Sign(AppendLogEntrySignData(req.Group, req.Term,
                                                req.PrevLogIndex, req.PrevLogTerm))

====
